---- MODULE Spec2Model ----
(***************************************************************************)
(* bytecord: ByteCord (bounds-checked positional access), ByteCordReader   *)
(* (cursor with alignment) and ByteCordBuilder (append with zero padding). *)
(*                                                                         *)
(* usize is modelled with UsizeBits bits, so that position + length can    *)
(* overflow within the model.  Overflowing usize arithmetic panics when    *)
(* the crate is compiled with overflow checks (debug profile) and wraps    *)
(* otherwise (release profile); overflow_checks is the profile of the run. *)
(***************************************************************************)
EXTENDS Integers, Sequences, FiniteSets, TLC

VARIABLES cord, reader, builder, boxed, last, reads, log, step,
          overflow_checks, panicked

vars == <<cord, reader, builder, boxed, last, reads, log, step,
          overflow_checks, panicked>>

----------------------------------------------------------------------------
(* Bounds of the model. *)

\* width of usize in bits
UsizeBits == 6
\* longest initial buffer handed to ByteCord::new
MaxLen == 10
\* longest of the short reads requested
MaxRead == 4
\* largest alignment value tried at construction
MaxAlignInput == 9
\* longest slice handed to append_from_slice
MaxSlice == 3
\* longest byte sequence a builder accumulates
MaxBuilt == 20
\* most append calls made on a builder
MaxAppends == 2

RECURSIVE Pow2(_)
Pow2(n) == IF n = 0 THEN 1 ELSE 2 * Pow2(n - 1)

UsizeMax == Pow2(UsizeBits) - 1

Readers == {1, 2}

\* lengths requested from a reader or a cord
Lengths == (0 .. MaxRead) \cup {MaxLen, UsizeMax}

\* positions requested from a cord
Positions == (0 .. MaxRead) \cup {MaxLen, UsizeMax}

\* the S of next::<S>, at::<S>, at_mut::<S>
ArraySizes == {0, 1, 3, 4, 16}

\* alignments tried at construction
AlignInputs == 0 .. MaxAlignInput

Zeros(n) == [i \in 1 .. n |-> 0]
Ramp(n) == [i \in 1 .. n |-> i]

\* the buffers a cord is created over
Buffers == {Ramp(n) : n \in 0 .. MaxLen} \cup {Zeros(MaxLen)}

----------------------------------------------------------------------------
(* usize arithmetic and the standard-library functions the crate calls. *)

RetSome(off, bytes) == [kind |-> "Some", off |-> off, bytes |-> bytes]
RetNone == [kind |-> "None", off |-> 0, bytes |-> <<>>]
RetPanic == [kind |-> "panic", off |-> 0, bytes |-> <<>>]
RetUnit == [kind |-> "unit", off |-> 0, bytes |-> <<>>]

\* a + b on usize
usize_add(a, b, checks) ==
    IF a + b > UsizeMax
    THEN IF checks
         THEN [panic |-> TRUE, value |-> 0]
         ELSE [panic |-> FALSE, value |-> (a + b) % (UsizeMax + 1)]
    ELSE [panic |-> FALSE, value |-> a + b]

RECURSIVE count_ones(_)
count_ones(x) == IF x = 0 THEN 0 ELSE (x % 2) + count_ones(x \div 2)

\* usize::is_power_of_two
is_power_of_two(x) == count_ones(x) = 1

\* usize::next_multiple_of: match self % rhs { 0 => self, r => self + (rhs - r) }
next_multiple_of(x, rhs, checks) ==
    IF rhs = 0
    THEN [panic |-> TRUE, value |-> 0]
    ELSE LET r == x % rhs IN
         IF r = 0
         THEN [panic |-> FALSE, value |-> x]
         ELSE usize_add(x, rhs - r, checks)

\* usize::saturating_sub
saturating_sub(a, b) == IF a < b THEN 0 ELSE a - b

\* &data[start..end]
slice_index(data, start, end) ==
    IF start > end \/ end > Len(data)
    THEN RetPanic
    ELSE RetSome(start, SubSeq(data, start + 1, end))

\* &*(slice.as_ptr() as *const [u8; S]): the S bytes at the slice's address
array_cast(data, slice, S) ==
    RetSome(slice.off, SubSeq(data, slice.off + 1, slice.off + S))

----------------------------------------------------------------------------
(* ByteCord *)

\* at_n rejecting an access that ends at the last byte
at_n_strict(data, position, length, checks) ==
    LET end == usize_add(position, length, checks) IN
    IF end.panic
    THEN RetPanic
    ELSE IF end.value >= Len(data)
         THEN RetNone
         ELSE slice_index(data, position, end.value)

at_n(data, position, length, checks) ==
    LET end == usize_add(position, length, checks) IN
    IF end.panic
    THEN RetPanic
    ELSE IF end.value > Len(data)
         THEN RetNone
         ELSE slice_index(data, position, end.value)

at(data, position, S, checks) ==
    LET slice == at_n(data, position, S, checks) IN
    IF slice.kind = "Some" THEN array_cast(data, slice, S) ELSE slice

\* at_n_mut testing the start of the range only, and cutting the view at
\* the end of the buffer
at_n_mut_clamped(data, position, length, checks) ==
    LET end == usize_add(position, length, checks) IN
    IF end.panic
    THEN RetPanic
    ELSE IF position >= Len(data)
         THEN RetNone
         ELSE slice_index(data, position,
                          IF end.value > Len(data) THEN Len(data) ELSE end.value)

at_n_mut(data, position, length, checks) ==
    LET end == usize_add(position, length, checks) IN
    IF end.panic
    THEN RetPanic
    ELSE IF end.value >= Len(data)
         THEN RetNone
         ELSE slice_index(data, position, end.value)

at_mut(data, position, S, checks) ==
    LET slice == at_n_mut(data, position, S, checks) IN
    IF slice.kind = "Some" THEN array_cast(data, slice, S) ELSE slice

----------------------------------------------------------------------------
(* ByteCordReader *)

NoReader == [live |-> FALSE, alignment |-> 0, position |-> 0]

\* with_alignment asserting only that the alignment is not 0
with_alignment_nonzero(alignment) ==
    IF alignment # 0
    THEN [panic |-> FALSE,
          reader |-> [live |-> TRUE, alignment |-> alignment, position |-> 0]]
    ELSE [panic |-> TRUE, reader |-> NoReader]

\* ByteCordReader::with_alignment: the assertion, then the new reader
with_alignment(alignment) ==
    IF is_power_of_two(alignment) \/ alignment = 1
    THEN [panic |-> FALSE,
          reader |-> [live |-> TRUE, alignment |-> alignment, position |-> 0]]
    ELSE [panic |-> TRUE, reader |-> NoReader]

\* next_n without the rounding to the alignment
next_n_unaligned(data, rd, length, checks) ==
    LET result == at_n(data, rd.position, length, checks) IN
    [ret |-> result,
     position |-> IF result.kind = "Some" THEN rd.position + length ELSE rd.position]

\* next_n moving the cursor whether or not the bytes are there
next_n_always_moves(data, rd, length, checks) ==
    LET result == at_n(data, rd.position, length, checks) IN
    [ret |-> result,
     position |-> IF result.kind = "panic"
                  THEN rd.position
                  ELSE ((rd.position + length) % (UsizeMax + 1))]

\* next_n leaving the cursor where it was
next_n_stays(data, rd, length, checks) ==
    [ret |-> at_n(data, rd.position, length, checks), position |-> rd.position]

\* next_n going back to the start of the buffer when the bytes are not there
next_n_rewinds(data, rd, length, checks) ==
    LET result == at_n(data, rd.position, length, checks) IN
    IF result.kind = "Some"
    THEN [ret |-> result,
          position |-> next_multiple_of(rd.position + length, rd.alignment,
                                        FALSE).value]
    ELSE [ret |-> result, position |-> 0]

\* ByteCordReader::next_n: the value returned and the position afterwards
next_n(data, rd, length, checks) ==
    LET result == at_n(data, rd.position, length, checks) IN
    IF result.kind = "Some"
    THEN LET sum == usize_add(rd.position, length, checks)
             np == IF sum.panic
                   THEN sum
                   ELSE next_multiple_of(sum.value, rd.alignment, checks)
         IN  IF np.panic
             THEN [ret |-> RetPanic, position |-> rd.position]
             ELSE [ret |-> result, position |-> np.value]
    ELSE [ret |-> result, position |-> rd.position]

\* ByteCordReader::next::<S>
next(data, rd, S, checks) ==
    LET r == next_n(data, rd, S, checks) IN
    IF r.ret.kind = "Some"
    THEN [r EXCEPT !.ret = array_cast(data, r.ret, S)]
    ELSE r

\* skip moving the cursor by `length` without the rounding to the alignment
skip_unaligned(data, rd, length, checks) ==
    LET r == next_n_unaligned(data, rd, length, checks) IN
    [ret |-> IF r.ret.kind = "panic"
             THEN RetPanic
             ELSE [RetUnit EXCEPT
                     !.kind = IF r.ret.kind = "Some" THEN "true" ELSE "false"],
     position |-> r.position]

\* ByteCordReader::skip: next_n(length).is_some()
skip(data, rd, length, checks) ==
    LET r == next_n(data, rd, length, checks) IN
    [ret |-> IF r.ret.kind = "panic"
             THEN RetPanic
             ELSE [RetUnit EXCEPT
                     !.kind = IF r.ret.kind = "Some" THEN "true" ELSE "false"],
     position |-> r.position]

\* remaining subtracting with wrap-around instead of saturating
remaining_wrapping(data, rd) ==
    (Len(data) - rd.position) % (UsizeMax + 1)

\* ByteCordReader::remaining
remaining(data, rd) == saturating_sub(Len(data), rd.position)

----------------------------------------------------------------------------
(* The typed accessors' and appenders' byte-order conversions. *)

\* next_u8 .. next_le_i128 and append_u8 .. append_le_i128: width in bytes,
\* signedness, byte order ("ne" for the one-byte types, which have none)
Types == [S : {1}, signed : BOOLEAN, order : {"ne"}]
         \cup [S : {2, 4, 8, 16}, signed : BOOLEAN, order : {"be", "le"}]

NoType == [S |-> 0, signed |-> FALSE, order |-> "ne"]

Reverse(s) == [i \in 1 .. Len(s) |-> s[Len(s) + 1 - i]]

\* uN/iN::to_le_bytes: the S low-order bytes of the two's complement of v
RECURSIVE to_le_bytes(_, _)
to_le_bytes(v, S) ==
    IF S = 0 THEN <<>> ELSE <<v % 256>> \o to_le_bytes(v \div 256, S - 1)

\* uN/iN::to_be_bytes
to_be_bytes(v, S) == Reverse(to_le_bytes(v, S))

RECURSIVE horner(_, _, _)
horner(arr, i, acc) ==
    IF i > Len(arr) THEN acc ELSE horner(arr, i + 1, acc * 256 + arr[i])

\* uN/iN::from_be_bytes: arr[1] is the most significant byte, and carries the sign
from_be_bytes(arr, signed) ==
    horner(arr, 2, IF signed /\ arr[1] >= 128 THEN arr[1] - 256 ELSE arr[1])

\* uN/iN::from_le_bytes
from_le_bytes(arr, signed) == from_be_bytes(Reverse(arr), signed)

\* every appender using to_le_bytes
to_bytes_le(ty, v) == to_le_bytes(v, ty.S)

\* the bytes a typed appender hands to append: [value], [value as u8],
\* value.to_be_bytes() or value.to_le_bytes()
to_bytes(ty, v) ==
    IF ty.S = 1
    THEN <<v % 256>>
    ELSE IF ty.order = "be" THEN to_be_bytes(v, ty.S) ELSE to_le_bytes(v, ty.S)

\* the value a typed accessor makes of the array: arr[0], arr[0] as i8,
\* from_be_bytes(*arr) or from_le_bytes(*arr)
from_bytes(ty, arr) ==
    IF ty.S = 1
    THEN IF ty.signed /\ arr[1] >= 128 THEN arr[1] - 256 ELSE arr[1]
    ELSE IF ty.order = "be"
         THEN from_be_bytes(arr, ty.signed)
         ELSE from_le_bytes(arr, ty.signed)

\* ByteCordReader::next_u8 .. next_le_i128
next_typed(data, rd, ty, checks) == next(data, rd, ty.S, checks)

\* The model's integers have 32 bits: a typed read is taken only where the
\* value read fits them (high-order bytes all 0x00, or all 0xFF for a
\* negative value).
Representable(ty, arr) ==
    LET m == IF ty.order = "le" THEN Reverse(arr) ELSE arr
        n == Len(m)
    IN  IF n < 4
        THEN TRUE
        ELSE IF m[n - 3] < 128
             THEN \A i \in 1 .. (n - 4) : m[i] = 0
             ELSE ty.signed /\ \A i \in 1 .. (n - 4) : m[i] = 255

----------------------------------------------------------------------------
(* ByteCordBuilder *)

NoBuilder == [live |-> FALSE, inner |-> <<>>, alignment |-> 0]

\* ByteCordBuilder::with_capacity: the assertion, then the new builder
\* (the capacity reserved does not show in the builder's behaviour)
with_capacity(capacity, alignment) ==
    IF is_power_of_two(alignment) \/ alignment = 1
    THEN [panic |-> FALSE,
          builder |-> [live |-> TRUE, inner |-> <<>>, alignment |-> alignment]]
    ELSE [panic |-> TRUE, builder |-> NoBuilder]

\* a - b on usize
usize_sub(a, b, checks) ==
    IF a < b
    THEN IF checks
         THEN [panic |-> TRUE, value |-> 0]
         ELSE [panic |-> FALSE, value |-> (a - b) % (UsizeMax + 1)]
    ELSE [panic |-> FALSE, value |-> a - b]

\* Vec::resize(new_len, value)
resize(v, new_len, value) ==
    IF new_len > Len(v)
    THEN v \o [i \in 1 .. (new_len - Len(v)) |-> value]
    ELSE SubSeq(v, 1, new_len)

\* append_from_slice that forgets the padding
append_from_slice_unpadded(inner, alignment, slice, checks) ==
    [panic |-> FALSE, inner |-> inner \o slice]

\* append_from_slice that pads before the slice instead of after it
append_from_slice_pads_first(inner, alignment, slice, checks) ==
    LET total == Len(inner) + Len(slice)
        padding == (alignment - (total % alignment)) % alignment
    IN  [panic |-> FALSE,
         inner |-> (inner \o [i \in 1 .. padding |-> 0]) \o slice]

\* append_from_slice padding by alignment - len % alignment, a whole
\* alignment when the length is already aligned
append_from_slice_pads_always(inner, alignment, slice, checks) ==
    LET extended == inner \o slice
        padding == alignment - (Len(extended) % alignment)
    IN  [panic |-> FALSE, inner |-> resize(extended, Len(extended) + padding, 0)]

\* ByteCordBuilder::append_from_slice: the builder's bytes afterwards
append_from_slice(inner, alignment, slice, checks) ==
    LET extended == inner \o slice
        multiple == next_multiple_of(Len(extended), alignment, checks)
        padding == IF multiple.panic
                   THEN multiple
                   ELSE usize_sub(multiple.value, Len(extended), checks)
    IN  IF padding.panic
        THEN [panic |-> TRUE, inner |-> extended]
        ELSE IF padding.value > 0
             THEN [panic |-> FALSE,
                   inner |-> resize(extended, Len(extended) + padding.value, 0)]
             ELSE [panic |-> FALSE, inner |-> extended]

\* ByteCordBuilder::append::<S>
append(inner, alignment, bytes, checks) ==
    append_from_slice(inner, alignment, bytes, checks)

\* ByteCordBuilder::append_u8 .. append_le_i128
append_typed(inner, alignment, ty, value, checks) ==
    append(inner, alignment, to_bytes(ty, value), checks)

----------------------------------------------------------------------------
(* State *)

NoCord == [live |-> FALSE, data |-> <<>>]
NoBoxed == [live |-> FALSE, bytes |-> <<>>]

\* what is remembered of the ranges [off, off + len) that next_n and next
\* have returned from a reader so far: the largest offset (-1: none yet)
\* and the largest end among them
NoReads == [maxOff |-> -1, maxEnd |-> 0]

Max(a, b) == IF a > b THEN a ELSE b

Noted(rs, ret) ==
    IF ret.kind = "Some"
    THEN [maxOff |-> Max(rs.maxOff, ret.off),
          maxEnd |-> Max(rs.maxEnd, ret.off + Len(ret.bytes))]
    ELSE rs

\* the last call: op, the reader r it was made on (0: none), its argument
\* arg (a length, an array size or an alignment), pos (the reader's position
\* before the call, or the position argument of a cord access), what it
\* returned (ret, and value for a number), the type ty of a typed call, and
\* pre (the builder's or the cord's bytes before the call)
Call(op, r, arg, pos, ret, value, ty, pre) ==
    [op |-> op, r |-> r, arg |-> arg, pos |-> pos, ret |-> ret,
     value |-> value, ty |-> ty, pre |-> pre]

NoCall == Call("none", 0, 0, 0, RetUnit, 0, NoType, <<>>)

\* the slices and arrays handed to append_from_slice and append
SliceBytes == [i \in 1 .. MaxSlice |-> 256 - i]
Slices == {SubSeq(SliceBytes, 1, n) : n \in 0 .. MaxSlice}

\* the values handed to the typed appenders: the least or largest value of
\* the type that the model's integers hold, and the values of the crate's
\* documentation
Values(ty) ==
    IF ty.S = 1
    THEN IF ty.signed THEN {-128, 127} ELSE {1, 2, 255}
    ELSE IF ty.signed
         THEN {-3919, IF ty.S = 2 THEN -32768 ELSE -2147483647 - 1}
         ELSE {1111, IF ty.S = 2 THEN 65535 ELSE 2147483647}

\* the byte written through a mutable view
Fill == 170

----------------------------------------------------------------------------
(* ByteCord operations *)

\* ByteCord::new over the bytes a builder was turned into
CordNew ==
    /\ ~panicked
    /\ boxed.live
    /\ ~cord.live
    /\ cord' = [live |-> TRUE, data |-> boxed.bytes]
    /\ boxed' = [boxed EXCEPT !.live = FALSE]
    /\ last' = Call("cord_new", 0, 0, 0, RetUnit, 0, NoType, <<>>)
    /\ UNCHANGED <<reader, builder, reads, log, step, overflow_checks, panicked>>

AtN(position, length) ==
    /\ ~panicked
    /\ cord.live
    /\ LET ret == at_n(cord.data, position, length, overflow_checks) IN
       /\ last' = Call("at_n", 0, length, position, ret, 0, NoType, cord.data)
       /\ panicked' = (ret.kind = "panic")
    /\ UNCHANGED <<cord, reader, builder, boxed, reads, log, step, overflow_checks>>

AtS(position, S) ==
    /\ ~panicked
    /\ cord.live
    /\ LET ret == at(cord.data, position, S, overflow_checks) IN
       /\ last' = Call("at", 0, S, position, ret, 0, NoType, cord.data)
       /\ panicked' = (ret.kind = "panic")
    /\ UNCHANGED <<cord, reader, builder, boxed, reads, log, step, overflow_checks>>

\* no reader borrows the cord when a mutable view of it is taken
AtNMut(position, length) ==
    /\ ~panicked
    /\ cord.live
    /\ \A r \in Readers : ~reader[r].live
    /\ LET ret == at_n_mut(cord.data, position, length, overflow_checks) IN
       /\ last' = Call("at_n_mut", 0, length, position, ret, 0, NoType, cord.data)
       /\ panicked' = (ret.kind = "panic")
    /\ UNCHANGED <<cord, reader, builder, boxed, reads, log, step, overflow_checks>>

AtMutS(position, S) ==
    /\ ~panicked
    /\ cord.live
    /\ \A r \in Readers : ~reader[r].live
    /\ LET ret == at_mut(cord.data, position, S, overflow_checks) IN
       /\ last' = Call("at_mut", 0, S, position, ret, 0, NoType, cord.data)
       /\ panicked' = (ret.kind = "panic")
    /\ UNCHANGED <<cord, reader, builder, boxed, reads, log, step, overflow_checks>>

\* the cord's bytes after every byte of the view is set to b
Written(data, view, b) ==
    [i \in 1 .. Len(data) |->
        IF view.off < i /\ i <= view.off + Len(view.bytes) THEN b ELSE data[i]]

\* the caller writes Fill to every byte of the mutable view it was just
\* given (views of the longest buffers, as supplied, are written)
WriteView ==
    /\ ~panicked
    /\ last.op \in {"at_n_mut", "at_mut"}
    /\ last.ret.kind = "Some"
    /\ cord.data \in {Ramp(MaxLen), Zeros(MaxLen)}
    /\ cord' = [cord EXCEPT !.data = Written(cord.data, last.ret, Fill)]
    /\ last' = Call("write", 0, Len(last.ret.bytes), last.ret.off, RetUnit, 0,
                    NoType, cord.data)
    /\ UNCHANGED <<reader, builder, boxed, reads, log, step, overflow_checks,
                   panicked>>

\* ByteCord::len
CordLen ==
    /\ ~panicked
    /\ cord.live
    /\ last' = Call("len", 0, 0, 0, RetUnit, Len(cord.data), NoType, cord.data)
    /\ UNCHANGED <<cord, reader, builder, boxed, reads, log, step,
                   overflow_checks, panicked>>

\* ByteCord::is_empty
IsEmpty ==
    /\ ~panicked
    /\ cord.live
    /\ last' = Call("is_empty", 0, 0, 0,
                    [RetUnit EXCEPT
                       !.kind = IF cord.data = <<>> THEN "true" ELSE "false"],
                    0, NoType, cord.data)
    /\ UNCHANGED <<cord, reader, builder, boxed, reads, log, step,
                   overflow_checks, panicked>>

CordStep ==
    \/ \E position \in Positions, length \in Lengths : AtN(position, length)
    \/ \E position \in Positions, S \in ArraySizes : AtS(position, S)
    \/ \E position \in Positions, length \in Lengths : AtNMut(position, length)
    \/ \E position \in Positions, S \in ArraySizes : AtMutS(position, S)
    \/ WriteView
    \/ CordLen
    \/ IsEmpty

----------------------------------------------------------------------------
(* Reader operations *)

\* a reader is constructed over the cord with the given alignment
Construct(op, r, alignment) ==
    /\ ~panicked
    /\ cord.live
    /\ ~reader[r].live
    /\ LET c == with_alignment(alignment) IN
       /\ reader' = [reader EXCEPT ![r] = c.reader]
       /\ last' = Call(op, r, alignment, 0,
                       IF c.panic THEN RetPanic ELSE RetUnit, 0, NoType, <<>>)
       /\ panicked' = c.panic
    /\ UNCHANGED <<cord, builder, boxed, reads, log, step, overflow_checks>>

\* ByteCordReader::with_alignment(&cord, alignment)
WithAlignment(r, alignment) == Construct("with_alignment", r, alignment)

\* ByteCordReader::new(&cord)
New(r) == Construct("new", r, 1)

\* ByteCord::read
Read(r) == Construct("read", r, 1)

\* ByteCord::read_with_alignment
ReadWithAlignment(r, alignment) == Construct("read_with_alignment", r, alignment)

\* next_n on a cursor that the readers of a cord have in common
NextNCallSharedCursor(r, length) ==
    /\ ~panicked
    /\ reader[r].live
    /\ LET res == next_n(cord.data, reader[r], length, overflow_checks) IN
       /\ reader' = [q \in Readers |->
                       IF reader[q].live
                       THEN [reader[q] EXCEPT !.position = res.position]
                       ELSE reader[q]]
       /\ last' = Call("next_n", r, length, reader[r].position, res.ret, 0,
                       NoType, <<>>)
       /\ panicked' = (res.ret.kind = "panic")
    /\ UNCHANGED <<cord, builder, boxed, log, overflow_checks>>

\* a call of next_n, whoever makes it
NextNCall(r, length) ==
    /\ ~panicked
    /\ reader[r].live
    /\ LET res == next_n(cord.data, reader[r], length, overflow_checks) IN
       /\ reader' = [reader EXCEPT ![r].position = res.position]
       /\ last' = Call("next_n", r, length, reader[r].position, res.ret, 0,
                       NoType, <<>>)
       /\ panicked' = (res.ret.kind = "panic")
    /\ UNCHANGED <<cord, builder, boxed, log, overflow_checks>>

NextN(r, length) == NextNCall(r, length) /\ UNCHANGED <<reads, step>>

\* a call of next::<S>, whoever makes it
NextSCall(r, S) ==
    /\ ~panicked
    /\ reader[r].live
    /\ LET res == next(cord.data, reader[r], S, overflow_checks) IN
       /\ reader' = [reader EXCEPT ![r].position = res.position]
       /\ last' = Call("next", r, S, reader[r].position, res.ret, 0,
                       NoType, <<>>)
       /\ panicked' = (res.ret.kind = "panic")
    /\ UNCHANGED <<cord, builder, boxed, log, step, overflow_checks>>

NextS(r, S) == NextSCall(r, S) /\ UNCHANGED reads

\* next_n and next::<S>, the range returned being noted
NextNNoted(r, length) ==
    /\ NextNCall(r, length)
    /\ reads' = [reads EXCEPT ![r] = Noted(reads[r], last'.ret)]
    /\ UNCHANGED step

NextSNoted(r, S) ==
    /\ NextSCall(r, S)
    /\ reads' = [reads EXCEPT ![r] = Noted(reads[r], last'.ret)]

\* ByteCordReader::skip: next_n(length).is_some()
Skip(r, length) ==
    /\ ~panicked
    /\ reader[r].live
    /\ LET res == skip(cord.data, reader[r], length, overflow_checks) IN
       /\ reader' = [reader EXCEPT ![r].position = res.position]
       /\ last' = Call("skip", r, length, reader[r].position, res.ret, 0,
                       NoType, <<>>)
       /\ panicked' = (res.ret.kind = "panic")
    /\ UNCHANGED <<cord, builder, boxed, reads, log, step, overflow_checks>>

Remaining(r) ==
    /\ ~panicked
    /\ reader[r].live
    /\ last' = Call("remaining", r, 0, reader[r].position, RetUnit,
                    remaining(cord.data, reader[r]), NoType, <<>>)
    /\ UNCHANGED <<cord, reader, builder, boxed, reads, log, step,
                   overflow_checks, panicked>>

\* a call of next_u8, next_i8, next_be_u16, ... next_le_i128, whoever makes it
NextTypedCall(r, ty) ==
    /\ ~panicked
    /\ reader[r].live
    /\ LET res == next_typed(cord.data, reader[r], ty, overflow_checks) IN
       /\ res.ret.kind = "Some" => Representable(ty, res.ret.bytes)
       /\ reader' = [reader EXCEPT ![r].position = res.position]
       /\ last' = Call("next_typed", r, ty.S, reader[r].position, res.ret,
                       IF res.ret.kind = "Some"
                       THEN from_bytes(ty, res.ret.bytes)
                       ELSE 0,
                       ty, <<>>)
       /\ panicked' = (res.ret.kind = "panic")
    /\ UNCHANGED <<cord, builder, boxed, reads, log, overflow_checks>>

NextTyped(r, ty) == NextTypedCall(r, ty) /\ UNCHANGED step

ReaderStep(r) ==
    \/ \E a \in AlignInputs : WithAlignment(r, a)
    \/ New(r)
    \/ Read(r)
    \/ \E a \in AlignInputs : ReadWithAlignment(r, a)
    \/ \E length \in Lengths : NextN(r, length)
    \/ \E S \in ArraySizes : NextS(r, S)
    \/ \E length \in Lengths : Skip(r, length)
    \/ Remaining(r)
    \/ \E ty \in Types : NextTyped(r, ty)

----------------------------------------------------------------------------
(* Builder operations *)

BuilderConstruct(op, capacity, alignment) ==
    /\ ~panicked
    /\ ~builder.live
    /\ builder.alignment = 0
    /\ LET c == with_capacity(capacity, alignment) IN
       /\ builder' = c.builder
       /\ last' = Call(op, 0, alignment, capacity,
                       IF c.panic THEN RetPanic ELSE RetUnit, 0, NoType, <<>>)
       /\ panicked' = c.panic
    /\ UNCHANGED <<cord, reader, boxed, reads, log, step, overflow_checks>>

\* ByteCordBuilder::with_capacity(capacity, alignment)
WithCapacity(capacity, alignment) ==
    BuilderConstruct("with_capacity", capacity, alignment)

\* ByteCordBuilder::new(alignment)
BuilderNew(alignment) == BuilderConstruct("builder_new", 0, alignment)

\* an append call: the bytes handed to append_from_slice are logged with
\* the builder's length after the call
Appended(op, res, bytes, ty, value) ==
    /\ builder' = [builder EXCEPT !.inner = res.inner]
    /\ last' = Call(op, 0, Len(bytes), 0,
                    IF res.panic THEN RetPanic ELSE RetUnit, value, ty,
                    builder.inner)
    /\ log' = Append(log, [ty |-> ty, value |-> value, bytes |-> bytes,
                           end |-> Len(res.inner)])
    /\ panicked' = res.panic
    /\ UNCHANGED <<cord, reader, boxed, reads, step, overflow_checks>>

CanAppend(n) ==
    /\ ~panicked
    /\ builder.live
    /\ Len(log) < MaxAppends
    /\ Len(builder.inner) + n <= MaxBuilt

AppendFromSlice(slice) ==
    /\ CanAppend(Len(slice))
    /\ Appended("append_from_slice",
                append_from_slice(builder.inner, builder.alignment, slice,
                                  overflow_checks),
                slice, NoType, 0)

AppendS(bytes) ==
    /\ CanAppend(Len(bytes))
    /\ Appended("append",
                append(builder.inner, builder.alignment, bytes, overflow_checks),
                bytes, NoType, 0)

\* append_u8, append_i8, append_be_u16, ... append_le_i128
AppendTyped(ty, value) ==
    /\ CanAppend(ty.S)
    /\ Appended("append_typed",
                append_typed(builder.inner, builder.alignment, ty, value,
                             overflow_checks),
                to_bytes(ty, value), ty, value)

\* ByteCordBuilder::into_boxed_slice consumes the builder
IntoBoxedSlice ==
    /\ ~panicked
    /\ builder.live
    /\ boxed' = [live |-> TRUE, bytes |-> builder.inner]
    /\ builder' = [builder EXCEPT !.live = FALSE]
    /\ last' = Call("into_boxed_slice", 0, 0, 0, RetUnit, 0, NoType,
                    builder.inner)
    /\ UNCHANGED <<cord, reader, reads, log, step, overflow_checks, panicked>>

BuilderStep ==
    \/ \E capacity \in {0, MaxBuilt}, a \in AlignInputs : WithCapacity(capacity, a)
    \/ \E a \in AlignInputs : BuilderNew(a)
    \/ \E slice \in Slices : AppendFromSlice(slice)
    \/ \E bytes \in Slices : AppendS(bytes)
    \/ \E ty \in Types : \E value \in Values(ty) : AppendTyped(ty, value)
    \/ IntoBoxedSlice

----------------------------------------------------------------------------
(* Spec: one reader over a buffer the caller supplies. *)

Init ==
    /\ cord \in {[live |-> TRUE, data |-> b] : b \in Buffers}
    /\ reader = [r \in Readers |-> NoReader]
    /\ builder = NoBuilder
    /\ boxed = NoBoxed
    /\ last = NoCall
    /\ reads = [r \in Readers |-> NoReads]
    /\ log = <<>>
    /\ step = 0
    /\ overflow_checks \in BOOLEAN
    /\ panicked = FALSE

Next == ReaderStep(1)

Spec == Init /\ [][Next]_vars

----------------------------------------------------------------------------
(* SpecRanges: one reader over a buffer the caller supplies, the ranges it *)
(* returns being noted in reads.                                           *)

NextRanges ==
    \/ \E a \in AlignInputs : WithAlignment(1, a)
    \/ \E length \in Lengths : NextNNoted(1, length)
    \/ \E S \in ArraySizes : NextSNoted(1, S)
    \/ \E length \in Lengths : Skip(1, length)

SpecRanges == Init /\ [][NextRanges]_vars

----------------------------------------------------------------------------
(* SpecCord: positional access to a buffer the caller supplies. *)

SpecCord == Init /\ [][CordStep]_vars

----------------------------------------------------------------------------
(* SpecConstruct: readers and a builder are constructed. *)

NextConstruct ==
    \/ \E r \in Readers :
         \/ \E a \in AlignInputs : WithAlignment(r, a)
         \/ New(r)
         \/ Read(r)
         \/ \E a \in AlignInputs : ReadWithAlignment(r, a)
    \/ \E capacity \in {0, MaxBuilt}, a \in AlignInputs : WithCapacity(capacity, a)
    \/ \E a \in AlignInputs : BuilderNew(a)

InitConstruct ==
    /\ Init
    /\ Len(cord.data) = MaxLen

SpecConstruct == InitConstruct /\ [][NextConstruct]_vars

----------------------------------------------------------------------------
(* SpecBuild: a builder is filled and turned into bytes, a cord is made of *)
(* them, and a reader with the builder's alignment reads back, in order,   *)
(* what was appended.                                                      *)

InitBuild ==
    /\ cord = NoCord
    /\ reader = [r \in Readers |-> NoReader]
    /\ builder = NoBuilder
    /\ boxed = NoBoxed
    /\ last = NoCall
    /\ reads = [r \in Readers |-> NoReads]
    /\ log = <<>>
    /\ step = 0
    /\ overflow_checks \in BOOLEAN
    /\ panicked = FALSE

\* the caller reads back an appended slice with next_n
ReadBackSlice(r) ==
    /\ step < Len(log)
    /\ log[step + 1].ty = NoType
    /\ NextNCall(r, Len(log[step + 1].bytes))
    /\ step' = step + 1
    /\ UNCHANGED reads

\* the caller reads back an appended value with the accessor of its type
ReadBackTyped(r) ==
    /\ step < Len(log)
    /\ log[step + 1].ty # NoType
    /\ NextTypedCall(r, log[step + 1].ty)
    /\ step' = step + 1

NextBuild ==
    \/ BuilderStep
    \/ CordNew
    \/ ReadWithAlignment(1, builder.alignment)
    \/ ReadBackSlice(1)
    \/ ReadBackTyped(1)

SpecBuild == InitBuild /\ [][NextBuild]_vars

----------------------------------------------------------------------------
(* SpecPlain: the building example of the crate documentation and its      *)
(* variations: a builder with alignment 1 takes up to as many appends as   *)
(* the example makes, of the example's types and of slices; the bytes are  *)
(* boxed, and a reader made with new() or read() reads them.               *)

\* data.append_le_u32(1111); data.append_u8(1); data.append_le_i64(-3919);
DocExample ==
    << [ty |-> [S |-> 4, signed |-> FALSE, order |-> "le"], value |-> 1111],
       [ty |-> [S |-> 1, signed |-> FALSE, order |-> "ne"], value |-> 1],
       [ty |-> [S |-> 8, signed |-> TRUE, order |-> "le"], value |-> -3919] >>

DocTypes == {DocExample[i].ty : i \in 1 .. Len(DocExample)}

\* an append is made while fewer were made than the example makes
CanAppendPlain ==
    /\ ~panicked
    /\ builder.live
    /\ Len(log) < Len(DocExample)

PlainAppendTyped(ty, value) ==
    /\ CanAppendPlain
    /\ Appended("append_typed",
                append_typed(builder.inner, builder.alignment, ty, value,
                             overflow_checks),
                to_bytes(ty, value), ty, value)

PlainAppendFromSlice(slice) ==
    /\ CanAppendPlain
    /\ Appended("append_from_slice",
                append_from_slice(builder.inner, builder.alignment, slice,
                                  overflow_checks),
                slice, NoType, 0)

NextPlain ==
    \/ BuilderNew(1)
    \/ \E ty \in DocTypes : \E value \in Values(ty) : PlainAppendTyped(ty, value)
    \/ \E slice \in Slices : PlainAppendFromSlice(slice)
    \/ IntoBoxedSlice
    \/ CordNew
    \/ New(1)
    \/ Read(1)
    \/ \E length \in Lengths : NextN(1, length)
    \/ \E ty \in DocTypes : NextTyped(1, ty)

SpecPlain == InitBuild /\ [][NextPlain]_vars

----------------------------------------------------------------------------
(* SpecReaders: several readers over one buffer, their calls interleaved. *)

NextReaders ==
    \E r \in Readers :
        \/ \E a \in AlignInputs : ReadWithAlignment(r, a)
        \/ Read(r)
        \/ \E length \in Lengths : NextN(r, length)
        \/ \E length \in Lengths : Skip(r, length)
        \/ Remaining(r)
        \/ \E ty \in DocTypes : NextTyped(r, ty)

InitReaders ==
    /\ Init
    /\ cord.data = Ramp(MaxLen)

SpecReaders == InitReaders /\ [][NextReaders]_vars

----------------------------------------------------------------------------
(* Vocabulary of the properties *)

ReadOps == {"next_n", "next", "skip", "next_typed"}

Succeeded(c) == c.ret.kind \in {"Some", "true"}
Failed(c) == c.ret.kind \in {"None", "false"}

IsPowerOfTwo(a) == \E k \in 0 .. UsizeBits : a = Pow2(k)

\* m is the smallest multiple of a that is >= x
SmallestMultipleAtLeast(m, a, x) ==
    /\ m >= x
    /\ m % a = 0
    /\ \A k \in x .. (m - 1) : k % a # 0

\* the bytes of data at indices [p, p + l)
BytesAt(data, p, l) == [i \in 1 .. l |-> data[p + i]]

----------------------------------------------------------------------------
(* Properties of the reader, under Spec (C7: under SpecRanges) *)

\* C1: the cursor of a reader is always a multiple of its alignment (0 at
\* construction), and after a successful read of `length` bytes from cursor
\* p the cursor is the smallest multiple of the alignment >= p + length.
CursorAligned ==
    /\ \A r \in Readers :
         reader[r].live =>
           /\ IsPowerOfTwo(reader[r].alignment)
           /\ reader[r].position % reader[r].alignment = 0
    /\ (last.op \in ReadOps /\ Succeeded(last)) =>
         /\ last.pos % reader[last.r].alignment = 0
         /\ SmallestMultipleAtLeast(reader[last.r].position,
                                    reader[last.r].alignment,
                                    last.pos + last.arg)

\* alignment 4: reading 3 bytes at 0 moves the cursor to 4
CursorAlignedWitness ==
    /\ last.op = "next_n"
    /\ last.ret.kind = "Some"
    /\ reader[1].alignment = 4
    /\ last.pos = 0
    /\ last.arg = 3
    /\ reader[1].position = 4

\* C2: a read that returns absence (None, or false for skip) leaves the
\* cursor, and with it remaining(), as it was before the call.
FailedReadKeepsCursor ==
    (last.op \in ReadOps /\ Failed(last)) =>
        /\ reader[last.r].position = last.pos
        /\ remaining(cord.data, reader[last.r])
             = saturating_sub(Len(cord.data), last.pos)

\* 10 zero bytes, alignment 4: the third next_n(3) fails with the cursor at 8
FailedReadKeepsCursorWitness ==
    /\ cord.data = Zeros(10)
    /\ reader[1].alignment = 4
    /\ last.op = "next_n"
    /\ last.arg = 3
    /\ last.ret.kind = "None"
    /\ last.pos = 8
    /\ reader[1].position = 8

\* the step is a successful next_n or next::<S> on reader r
ReturnsRange(r) ==
    /\ last'.op \in {"next_n", "next"}
    /\ last'.r = r
    /\ last'.ret.kind = "Some"

\* the range returned is the requested one, at the cursor
ExactRange(r) ==
    /\ last'.ret.off = reader[r].position
    /\ Len(last'.ret.bytes) = last'.arg
    /\ last'.ret.bytes = BytesAt(cord.data, reader[r].position, last'.arg)

\* C7 (as amended): a successful next_n(length) at cursor p returns exactly
\* the `length` bytes at [p, p + length); every range returned earlier by
\* the reader ends at or before the offset of the range returned now, so
\* the returned ranges are pairwise disjoint and ordered by offset.
RangesExactAndOrdered ==
    [][\A r \in Readers :
         ReturnsRange(r) => ExactRange(r) /\ reads[r].maxEnd <= last'.ret.off]_vars

\* a second read returning the bytes at [4, 7)
RangesExactAndOrderedWitness ==
    /\ last.op = "next_n"
    /\ last.ret.kind = "Some"
    /\ last.ret.off = 4
    /\ last.ret.bytes = <<5, 6, 7>>
    /\ reads[1].maxEnd = 7

\* C7 as stated: ... and the offsets of the returned ranges are strictly
\* increasing.
RangesStrictlyOrdered ==
    [][\A r \in Readers :
         ReturnsRange(r) =>
           /\ ExactRange(r)
           /\ reads[r].maxEnd <= last'.ret.off
           /\ reads[r].maxOff < last'.ret.off]_vars

\* C11: remaining() is max(0, len - cursor): len - cursor while the cursor
\* is within the buffer, and 0 once alignment rounding has moved the cursor
\* past the end of the buffer.
RemainingSaturates ==
    /\ \A r \in Readers :
         reader[r].live =>
           remaining(cord.data, reader[r])
             = IF reader[r].position <= Len(cord.data)
               THEN Len(cord.data) - reader[r].position
               ELSE 0
    /\ last.op = "remaining" =>
         /\ last.value >= 0
         /\ last.pos <= Len(cord.data) => last.value = Len(cord.data) - last.pos
         /\ last.pos > Len(cord.data) => last.value = 0

\* 9 bytes, alignment 4: the cursor is at 12 and remaining() returns 0
RemainingSaturatesWitness ==
    /\ Len(cord.data) = 9
    /\ reader[1].alignment = 4
    /\ reader[1].position = 12
    /\ last.op = "remaining"
    /\ last.pos = 12
    /\ last.value = 0

\* C13: skip(length) does as next_n(length) with the data discarded: it
\* returns true exactly when next_n(length), called in the state skip was
\* called in, returns a value, and leaves the cursor where that call would
\* (rounded up from cursor + length on success, unchanged on failure).
SkipIsNextN ==
    last.op = "skip" =>
        LET before == [reader[last.r] EXCEPT !.position = last.pos]
            n == next_n(cord.data, before, last.arg, overflow_checks)
        IN  /\ (last.ret.kind = "true") <=> (n.ret.kind = "Some")
            /\ (last.ret.kind = "false") <=> (n.ret.kind = "None")
            /\ (last.ret.kind = "panic") <=> (n.ret.kind = "panic")
            /\ reader[last.r].position = n.position
            /\ last.ret.kind = "true" =>
                 SmallestMultipleAtLeast(reader[last.r].position,
                                         reader[last.r].alignment,
                                         last.pos + last.arg)
            /\ last.ret.kind = "false" => reader[last.r].position = last.pos

\* alignment 8: skip(3) at cursor 0 returns true and moves the cursor to 8
SkipIsNextNWitness ==
    /\ last.op = "skip"
    /\ last.ret.kind = "true"
    /\ reader[1].alignment = 8
    /\ last.pos = 0
    /\ last.arg = 3
    /\ reader[1].position = 8

\* C14: no operation on a reader (next_n, next, skip, a typed accessor,
\* remaining; successful or failed) moves its cursor backwards.
CursorMonotone ==
    [][\A r \in Readers :
         (reader[r].live /\ reader'[r].live) =>
            reader'[r].position >= reader[r].position]_vars

\* 10 bytes, alignment 4: the cursor went to 8 and skip(4) has failed there
CursorMonotoneWitness ==
    /\ Len(cord.data) = 10
    /\ reader[1].alignment = 4
    /\ last.op = "skip"
    /\ last.arg = 4
    /\ last.ret.kind = "false"
    /\ last.pos = 8
    /\ reader[1].position = 8

\* remaining() of the reader of the last call, evaluated before the call
RemainingBefore ==
    remaining(cord.data, [reader[last.r] EXCEPT !.position = last.pos])

ReadsNeverPanic ==
    last.op \in ReadOps => last.ret.kind # "panic"

----------------------------------------------------------------------------
(* Properties of the builder and of the round trip, under SpecBuild *)

AppendOps == {"append_from_slice", "append", "append_typed"}

\* C3: after every append call (append_from_slice, append, typed; any
\* slice, the empty one included) the builder's length is a multiple of its
\* alignment, and so is the length of what into_boxed_slice returns.
BuilderLengthAligned ==
    /\ builder.alignment # 0 => Len(builder.inner) % builder.alignment = 0
    /\ boxed.live =>
         /\ boxed.bytes = builder.inner
         /\ Len(boxed.bytes) % builder.alignment = 0

\* alignment 8: an empty slice appended after a first append, and the bytes
\* then boxed
BuilderLengthAlignedWitness ==
    /\ builder.alignment = 8
    /\ Len(log) = 2
    /\ log[1].bytes # <<>>
    /\ log[2].bytes = <<>>
    /\ boxed.live
    /\ Len(boxed.bytes) = 8

\* C4: a value appended to a builder with append_<order>_<type> and read
\* back, from a cord over the boxed bytes with a reader of the builder's
\* alignment, with next_<order>_<type> comes back as Some(value).
RoundTrip ==
    (last.op = "next_typed" /\ step >= 1) =>
        /\ reader[1].alignment = builder.alignment
        /\ last.ty = log[step].ty
        /\ last.ret.kind = "Some"
        /\ last.value = log[step].value

\* append_le_i64(-3919) on a fresh builder with alignment 4 is read back
RoundTripWitness ==
    /\ last.op = "next_typed"
    /\ step = 1
    /\ Len(log) = 1
    /\ builder.alignment = 4
    /\ last.ty = [S |-> 8, signed |-> TRUE, order |-> "le"]
    /\ last.ret.kind = "Some"
    /\ last.value = -3919

\* C8: append_from_slice(slice) on a builder of length n and alignment a
\* keeps the bytes [0, n), puts the slice at [n, n + |slice|), and adds only
\* zero bytes after it, fewer than a, up to the smallest multiple of a that
\* is >= n + |slice|; the length does not shrink.
AppendPlacesSliceThenZeros ==
    (last.op \in AppendOps /\ last.ret.kind # "panic") =>
        LET n == Len(last.pre)
            slice == log[Len(log)].bytes
            inner == builder.inner
            used == n + Len(slice)
        IN  /\ Len(inner) >= n
            /\ SubSeq(inner, 1, n) = last.pre
            /\ SubSeq(inner, n + 1, used) = slice
            /\ \A i \in (used + 1) .. Len(inner) : inner[i] = 0
            /\ Len(inner) - used < builder.alignment
            /\ SmallestMultipleAtLeast(Len(inner), builder.alignment, used)

\* alignment 4: append_u8(1) gives [1,0,0,0], then append_u8(2) gives
\* length 8 with byte 4 = 2
AppendPlacesSliceThenZerosWitness ==
    /\ builder.alignment = 4
    /\ last.op = "append_typed"
    /\ last.value = 2
    /\ last.pre = <<1, 0, 0, 0>>
    /\ builder.inner = <<1, 0, 0, 0, 2, 0, 0, 0>>

\* C17: a reader with the builder's alignment that reads back the appended
\* slices with next_n(|s1|), ..., next_n(|sn|) (values with the accessor of
\* their type) succeeds on every call; the k-th call returns the k-th
\* slice and leaves the cursor at the builder's length after the k-th
\* append; after the last read remaining() is 0.
Lockstep ==
    (last.op \in {"next_n", "next_typed"} /\ step >= 1) =>
        /\ reader[1].alignment = builder.alignment
        /\ cord.data = builder.inner
        /\ last.ret.kind = "Some"
        /\ last.ret.bytes = log[step].bytes
        /\ last.pos = (IF step = 1 THEN 0 ELSE log[step - 1].end)
        /\ reader[1].position = log[step].end
        /\ step = Len(log) =>
             /\ reader[1].position = Len(cord.data)
             /\ remaining(cord.data, reader[1]) = 0

\* alignment 4: a slice of 3 bytes and a slice of 1 byte were appended; the
\* second next_n returns the second slice and leaves the cursor at 8
LockstepWitness ==
    /\ builder.alignment = 4
    /\ Len(log) = 2
    /\ log[1].ty = NoType
    /\ Len(log[1].bytes) = 3
    /\ log[2].ty = NoType
    /\ Len(log[2].bytes) = 1
    /\ step = 2
    /\ last.op = "next_n"
    /\ last.pos = 4
    /\ last.ret.bytes = log[2].bytes
    /\ reader[1].position = 8
    /\ Len(cord.data) = 8

----------------------------------------------------------------------------
(* Properties of construction, under SpecConstruct *)

ConstructOps == {"with_alignment", "new", "read", "read_with_alignment",
                 "with_capacity", "builder_new"}

\* C9: constructing a reader or a builder panics if and only if the
\* alignment is not a power of two, and no reader or builder with another
\* alignment exists.
AlignmentAsserted ==
    /\ last.op \in ConstructOps =>
         ((last.ret.kind = "panic") <=> ~IsPowerOfTwo(last.arg))
    /\ \A r \in Readers : reader[r].live => IsPowerOfTwo(reader[r].alignment)
    /\ builder.live => IsPowerOfTwo(builder.alignment)

\* a builder with alignment 8 and a reader with alignment 1 exist, and
\* read_with_alignment(6) has panicked
AlignmentAssertedWitness ==
    /\ builder.live
    /\ builder.alignment = 8
    /\ reader[1].live
    /\ reader[1].alignment = 1
    /\ last.op = "read_with_alignment"
    /\ last.arg = 6
    /\ last.ret.kind = "panic"
    /\ ~reader[2].live

----------------------------------------------------------------------------
(* Properties of the cord, under SpecCord *)

\* C5: where position + length is representable, at_n(position, length)
\* returns a value if and only if position + length <= len(), the value
\* being the bytes at [position, position + length); at::<S>(position)
\* does as at_n(position, S).
AtNBounds ==
    (last.op \in {"at_n", "at"} /\ last.pos + last.arg <= UsizeMax) =>
        /\ last.ret.kind \in {"Some", "None"}
        /\ (last.ret.kind = "Some") <=> (last.pos + last.arg <= Len(cord.data))
        /\ last.ret.kind = "Some" =>
             /\ last.ret.off = last.pos
             /\ last.ret.bytes = BytesAt(cord.data, last.pos, last.arg)
        /\ last.op = "at" =>
             last.ret = at_n(cord.data, last.pos, last.arg, overflow_checks)

\* at::<4>(3) on a 7-byte buffer: the access ends at the last byte
AtNBoundsWitness ==
    /\ last.op = "at"
    /\ last.pos = 3
    /\ last.arg = 4
    /\ Len(cord.data) = 7
    /\ last.ret.kind = "Some"
    /\ last.ret.bytes = <<4, 5, 6, 7>>

\* C6: where position + length is representable, at_n_mut(position, length)
\* and at_mut::<S>(position) return a value if and only if
\* position + length <= len(), as at_n does.
MutableBoundsSymmetric ==
    (last.op \in {"at_n_mut", "at_mut"} /\ last.pos + last.arg <= UsizeMax) =>
        /\ (last.ret.kind = "Some") <=> (last.pos + last.arg <= Len(last.pre))
        /\ (last.ret.kind = "Some")
             <=> (at_n(last.pre, last.pos, last.arg, overflow_checks).kind = "Some")

----------------------------------------------------------------------------
(* Properties of alignment 1, under SpecPlain *)

\* the byte width of an appended item
Width(item) == IF item.ty = NoType THEN Len(item.bytes) ELSE item.ty.S

RECURSIVE SumWidths(_)
SumWidths(l) ==
    IF l = <<>> THEN 0 ELSE SumWidths(SubSeq(l, 1, Len(l) - 1)) + Width(l[Len(l)])

\* the encodings of the appended items, one after the other
RECURSIVE Encodings(_)
Encodings(l) ==
    IF l = <<>> THEN <<>> ELSE Encodings(SubSeq(l, 1, Len(l) - 1)) \o l[Len(l)].bytes

IsDocExample(l) ==
    /\ Len(l) = Len(DocExample)
    /\ \A i \in 1 .. Len(l) :
         l[i].ty = DocExample[i].ty /\ l[i].value = DocExample[i].value

\* C12: with alignment 1 the builder's length is the sum of the widths of
\* the appended items and its bytes are their encodings one after the other
\* (the documentation's example gives 13 bytes, 0x57 0x04 0x00 0x00, 0x01,
\* then -3919 in 8 little-endian bytes); a reader made with new() or read()
\* has its cursor moved by exactly `length` by each successful read.
NoPaddingAtAlignmentOne ==
    /\ builder.alignment = 1 =>
         /\ Len(builder.inner) = SumWidths(log)
         /\ builder.inner = Encodings(log)
    /\ boxed.live => boxed.bytes = Encodings(log)
    /\ IsDocExample(log) =>
         /\ Len(builder.inner) = 13
         /\ builder.inner
              = <<87, 4, 0, 0, 1, 177, 240, 255, 255, 255, 255, 255, 255>>
    /\ (last.op \in ReadOps /\ Succeeded(last)) =>
         /\ reader[last.r].alignment = 1
         /\ reader[last.r].position = last.pos + last.arg

\* the example's three values were appended, and a reader made with new()
\* has read them back: the cursor is at 13
NoPaddingAtAlignmentOneWitness ==
    /\ IsDocExample(log)
    /\ Len(cord.data) = 13
    /\ reader[1].live
    /\ last.op = "next_typed"
    /\ last.pos = 5
    /\ last.value = -3919
    /\ reader[1].position = 13

----------------------------------------------------------------------------
(* Properties of several readers, under SpecReaders *)

\* what a reader in state rd, alone over data, gets from the call c: the
\* value returned and the cursor afterwards
Alone(data, rd, c, checks) ==
    IF c.op = "next_n" THEN next_n(data, rd, c.arg, checks)
    ELSE IF c.op = "next" THEN next(data, rd, c.arg, checks)
    ELSE IF c.op = "skip" THEN skip(data, rd, c.arg, checks)
    ELSE IF c.op = "next_typed" THEN next_typed(data, rd, c.ty, checks)
    ELSE [ret |-> c.ret, position |-> rd.position]

\* C15: a call on one reader leaves the buffer and every other reader as
\* they were, and returns, and moves the reader's own cursor, as the same
\* call on a reader alone over the buffer with the same alignment and
\* cursor does.
ReadersIndependent ==
    [][\A r \in Readers :
         (last' # last /\ last'.r = r) =>
            /\ cord' = cord
            /\ \A q \in Readers \ {r} : reader'[q] = reader[q]
            /\ reader'[r].alignment
                 = IF reader[r].live THEN reader[r].alignment
                   ELSE reader'[r].alignment
            /\ last'.op \in ReadOps =>
                 /\ last'.pos = reader[r].position
                 /\ last'.ret
                      = Alone(cord.data, reader[r], last', overflow_checks).ret
                 /\ reader'[r].position
                      = Alone(cord.data, reader[r], last', overflow_checks).position
            /\ last'.op = "remaining" =>
                 /\ reader'[r] = reader[r]
                 /\ last'.value = remaining(cord.data, reader[r])]_vars

\* reader 1 (alignment 1) is at 3 while reader 2 (alignment 4) has just
\* read 3 bytes at 4 and is at 8
ReadersIndependentWitness ==
    /\ reader[1].live
    /\ reader[1].alignment = 1
    /\ reader[1].position = 3
    /\ reader[2].live
    /\ reader[2].alignment = 4
    /\ reader[2].position = 8
    /\ last.op = "next_n"
    /\ last.r = 2
    /\ last.pos = 4
    /\ last.ret.bytes = <<5, 6, 7>>

----------------------------------------------------------------------------
(* Properties of the mutable views, under SpecCord *)

\* C19: whenever at_n_mut(p, l) or at_mut::<S>(p) returns a view,
\* p + l <= len() holds, at_n(p, l) returns a value, and the view is the
\* bytes at [p, p + l); a write through the view leaves the length and
\* every byte outside [p, p + l) as they were.
MutableNeverMorePermissive ==
    /\ (last.op \in {"at_n_mut", "at_mut"} /\ last.ret.kind = "Some") =>
         /\ last.pos + last.arg <= Len(last.pre)
         /\ at_n(last.pre, last.pos, last.arg, overflow_checks).kind = "Some"
         /\ last.ret.off = last.pos
         /\ Len(last.ret.bytes) = last.arg
         /\ last.ret.bytes = BytesAt(last.pre, last.pos, last.arg)
    /\ last.op = "write" =>
         /\ last.pos + last.arg <= Len(last.pre)
         /\ Len(cord.data) = Len(last.pre)
         /\ \A i \in 1 .. Len(cord.data) :
              cord.data[i] = IF last.pos < i /\ i <= last.pos + last.arg
                             THEN Fill
                             ELSE last.pre[i]

\* the view at_n_mut(2, 3) of the bytes 1..10 was written: bytes 3, 4 and 5
\* changed, the others did not
MutableNeverMorePermissiveWitness ==
    /\ last.op = "write"
    /\ last.pos = 2
    /\ last.arg = 3
    /\ last.pre = Ramp(MaxLen)
    /\ SubSeq(cord.data, 1, 6) = <<1, 2, Fill, Fill, Fill, 6>>

====
